---- MODULE Spec2Model ----
(***************************************************************************)
(* The file upload pipeline of gradientzoo: HandleFileUpload               *)
(* (src/models/model.go, lines 257-428) run by concurrent requests against *)
(* the file repository, the blob store and the download counters, and      *)
(* ModelDb.Hydrate (lines 142-159).                                        *)
(*                                                                         *)
(* A file is identified by the order in which NewFile created it, which is *)
(* also the order of its created_time.  Sizes are counted in units of      *)
(* 1024*1024 bytes.                                                        *)
(***************************************************************************)
EXTENDS Integers, Sequences, FiniteSets, TLC

\* ------------------------------------------------------------------ bounds
\* Number of File records NewFile may create beyond the retention count.
MaxExtra == 2
\* Number of failures the collaborators (repository, blob store, counters)
\* may produce in one behaviour.
MaxFailures == 1
\* Length of the list of models handed to ModelDb.Hydrate.
MaxModels == 2

\* --------------------------------------------------------------- constants
\* The retention count HandleFileUpload hands to ToDelete.
SweepKeep == 10

MaxFiles == SweepKeep + MaxExtra

Procs == {1, 2}
Users == {"alice", "bob"}
Models == {"m1"}
Filenames == {"ckpt.bin"}
ModelOwner == [m \in Models |-> "alice"]
KeepValues == {1, 10, 100}
\* Keep values and payload sizes of the specification of the size tiers.
TierKeeps == {9, 10, 11, 100, 1000, 10000, 20000}
TierSizes == {1, 4097}
\* Payload sizes a request may carry, in units of 1024*1024 bytes: within
\* every ceiling, and above the ceiling of the lowest tier.
Sizes == {1, 501}
\* Payload sizes of the requests that are served concurrently.
SmallSizes == {1}
FileIds == 1..MaxFiles
\* Models handed to ModelDb.Hydrate, and the values a DownloadCounts takes;
\* ZeroCounts is the zero value of the struct.
HydrateIds == {"m1", "m2"}
ZeroCounts == 0
Counts == {ZeroCounts, 1}

VARIABLES
    keep,     \* Model.Keep of every model
    files,    \* the file table: id -> [status, model, filename]
    blobs,    \* ids of the files whose bytes are in the blob store
    nextId,   \* creation order of the next file NewFile makes
    nfail,    \* failures produced by the collaborators so far
    oversized, \* whether a File was saved for a payload above its ceiling
    req,      \* the requests: position in HandleFileUpload and its locals
    hyd       \* the models' Downloads and the last call of ModelDb.Hydrate

vars == <<keep, files, blobs, nextId, nfail, oversized, req, hyd>>

NoFile == [status |-> "None", model |-> "", filename |-> ""]

IdleReq ==
    [pc |-> "idle", user |-> "", model |-> "", filename |-> "", size |-> 0,
     bodyRead |-> 0, limit |-> {}, parsed |-> FALSE, fid |-> 0,
     listed |-> <<>>, todo |-> <<>>, ops |-> <<>>, resp |-> 0, failed |-> "", hydrated |-> FALSE]

\* ----------------------------------------------------------------- helpers
Min(S) == CHOOSE x \in S : \A y \in S : x <= y

RECURSIVE SortAsc(_)
SortAsc(S) == IF S = {} THEN <<>> ELSE <<Min(S)>> \o SortAsc(S \ {Min(S)})

InSlot(fs, st, m, fn) ==
    {f \in FileIds : fs[f].status = st /\ fs[f].model = m /\ fs[f].filename = fn}

Committed(m, fn) == InSlot(files, "Committed", m, fn)
Pending(m, fn) == InSlot(files, "Pending", m, fn)

\* Mutant: the 2GB tier carries the ceiling of the 1GB tier.
MaxBytesCopiedTier(k) ==
    CASE k = 10 -> 500
      [] k = 100 -> 1024
      [] k = 1000 -> 1024
      [] k = 10000 -> 4 * 1024
      [] OTHER -> 500

\* The size ceiling of the switch on m.Keep.
MaxBytes(k) ==
    CASE k = 10 -> 500
      [] k = 100 -> 1024
      [] k = 1000 -> 2 * 1024
      [] k = 10000 -> 4 * 1024
      [] OTHER -> 500

\* Whether the payload of request r is within the ceiling of its model.
WithinCeiling(r) == r.size <= MaxBytes(keep[r.model])

\* http.MaxBytesReader: the bytes a full read of a body of `size` consumes
\* under the ceilings installed on it, and whether the read fails.
BytesRead(size, limit) ==
    IF limit = {} \/ size <= Min(limit) THEN size ELSE Min(limit)
ReadFails(size, limit) == limit # {} /\ size > Min(limit)

\* ------------------------------------------------- the file repository
\* DeletePending: removes every Pending record of the slot.
RepoDeletePending(fs, m, fn) ==
    [f \in FileIds |->
        IF f \in InSlot(fs, "Pending", m, fn)
        THEN [fs[f] EXCEPT !.status = "Deleted"] ELSE fs[f]]

\* CommitPending: fails when no matching Pending record exists.
RepoCanCommit(fs, m, fn, id) == id \in InSlot(fs, "Pending", m, fn)
RepoCommitPending(fs, m, fn, id) == [fs EXCEPT ![id].status = "Committed"]

\* ToDelete: the Committed files of the slot beyond the n most recently
\* created, oldest first.
RepoToDelete(fs, m, fn, n) ==
    LET C == InSlot(fs, "Committed", m, fn)
    IN  SortAsc({f \in C : Cardinality({g \in C : g > f}) >= n})

RepoDelete(fs, id) == [fs EXCEPT ![id].status = "Deleted"]

\* ------------------------------------------------------- request steps
Log(r, op, ok) ==
    Append(r.ops, [op |-> op, ok |-> ok,
                   file |-> IF op \in {"BlobDelete", "FileDelete"}
                            THEN Head(r.todo) ELSE r.fid])

\* c.Render.JSON(w, code, JsonErr(...)); return -- after `step` failed.
Fail(r, step, code) == [r EXCEPT !.pc = "done", !.resp = code, !.failed = step]

Outcome(ok) ==
    /\ ok \/ nfail < MaxFailures
    /\ nfail' = IF ok THEN nfail ELSE nfail + 1

\* Requests in flight that have not yet created their file.
Unallocated == {q \in Procs : req[q].pc # "idle" /\ req[q].pc # "done" /\ req[q].fid = 0}

\* A request arrives: route parameters and body.
Start(p, sizes) ==
    /\ req[p].pc = "idle"
    /\ nextId + Cardinality(Unallocated) <= MaxFiles
    /\ \E m \in Models, fn \in Filenames, s \in sizes :
          req' = [req EXCEPT ![p] =
                    [IdleReq EXCEPT !.pc = "decode", !.model = m,
                                    !.filename = fn, !.size = s]]
    /\ UNCHANGED <<hyd, keep, oversized, files, blobs, nextId, nfail>>

\* req.FormValue("metadata") parses the whole multipart body under whatever
\* ceiling is installed on req.Body at that point; json.Unmarshal follows.
DecodeMetadata(p) ==
    /\ req[p].pc = "decode"
    /\ LET r == req[p]
           r1 == [r EXCEPT !.parsed = TRUE,
                           !.bodyRead = BytesRead(r.size, r.limit)]
       IN  \E metaOk \in BOOLEAN :
             IF metaOk /\ ~ReadFails(r.size, r.limit)
             THEN req' = [req EXCEPT ![p] = [r1 EXCEPT !.pc = "user"]]
             ELSE req' = [req EXCEPT ![p] = Fail(r1, "metadata", 400)]
    /\ UNCHANGED <<hyd, keep, oversized, files, blobs, nextId, nfail>>

\* Mutant: an unknown username is answered like a failed query.
LookupUserNoRowsAsError(p) ==
    /\ req[p].pc = "user"
    /\ \E out \in {"found", "norows", "error"} :
          CASE out = "found" -> req' = [req EXCEPT ![p].pc = "model"]
            [] out = "norows" -> req' = [req EXCEPT ![p] = Fail(@, "user", 502)]
            [] out = "error" -> req' = [req EXCEPT ![p] = Fail(@, "userError", 502)]
    /\ UNCHANGED <<hyd, keep, oversized, files, blobs, nextId, nfail>>

\* c.Api.User.ByUsername(username): found, sql.ErrNoRows, or another error
LookupUser(p) ==
    /\ req[p].pc = "user"
    /\ \E out \in {"found", "norows", "error"} :
          CASE out = "found" -> req' = [req EXCEPT ![p].pc = "model"]
            [] out = "norows" -> req' = [req EXCEPT ![p] = Fail(@, "user", 404)]
            [] out = "error" -> req' = [req EXCEPT ![p] = Fail(@, "userError", 502)]
    /\ UNCHANGED <<hyd, keep, oversized, files, blobs, nextId, nfail>>

\* c.Api.Model.ByUserIdSlug(user.Id, slug)
LookupModel(p) ==
    /\ req[p].pc = "model"
    /\ \E out \in {"found", "norows", "error"} :
          CASE out = "found" -> req' = [req EXCEPT ![p].pc = "owner"]
            [] out = "norows" -> req' = [req EXCEPT ![p] = Fail(@, "model", 404)]
            [] out = "error" -> req' = [req EXCEPT ![p] = Fail(@, "modelError", 502)]
    /\ UNCHANGED <<hyd, keep, oversized, files, blobs, nextId, nfail>>

\* Mutant: the 401 is rendered but the handler does not return.
CheckOwnerNoReturn(p) ==
    /\ req[p].pc = "owner"
    /\ \E u \in Users :
          IF ModelOwner[req[p].model] # u
          THEN req' = [req EXCEPT ![p] =
                         [@ EXCEPT !.user = u, !.resp = 401, !.failed = "owner",
                                   !.pc = "limit"]]
          ELSE req' = [req EXCEPT ![p].pc = "limit", ![p].user = u]
    /\ UNCHANGED <<hyd, keep, oversized, files, blobs, nextId, nfail>>

\* m.UserId != c.User.Id, c.User being the authenticated user
CheckOwner(p) ==
    /\ req[p].pc = "owner"
    /\ \E u \in Users :
          IF ModelOwner[req[p].model] # u
          THEN req' = [req EXCEPT ![p] = Fail([@ EXCEPT !.user = u], "owner", 401)]
          ELSE req' = [req EXCEPT ![p].pc = "limit", ![p].user = u]
    /\ UNCHANGED <<hyd, keep, oversized, files, blobs, nextId, nfail>>

\* req.Body = http.MaxBytesReader(w, req.Body, ...)
LimitBody(p) ==
    /\ req[p].pc = "limit"
    /\ req' = [req EXCEPT ![p].pc = "formfile",
                          ![p].limit = @ \cup {MaxBytes(keep[req[p].model])}]
    /\ UNCHANGED <<hyd, keep, oversized, files, blobs, nextId, nfail>>

\* req.FormFile("file"): parses the body only when no earlier call did.
FormFile(p) ==
    /\ req[p].pc = "formfile"
    /\ LET r == req[p]
           r1 == IF r.parsed THEN r
                 ELSE [r EXCEPT !.parsed = TRUE,
                                !.bodyRead = BytesRead(r.size, r.limit)]
           failed == ~r.parsed /\ ReadFails(r.size, r.limit)
       IN  \E hasFile \in BOOLEAN :
             IF hasFile /\ ~failed
             THEN req' = [req EXCEPT ![p] = [r1 EXCEPT !.pc = "readall"]]
             ELSE req' = [req EXCEPT ![p] = Fail(r1, "file", 400)]
    /\ UNCHANGED <<hyd, keep, oversized, files, blobs, nextId, nfail>>

\* ioutil.ReadAll(file)
ReadAll(p) ==
    /\ req[p].pc = "readall"
    /\ \E ok \in BOOLEAN :
          IF ok THEN req' = [req EXCEPT ![p].pc = "deletePending"]
          ELSE req' = [req EXCEPT ![p] = Fail(@, "read", 400)]
    /\ UNCHANGED <<hyd, keep, oversized, files, blobs, nextId, nfail>>

\* Mutant: the stale Pending records are not removed.
DeletePendingSkipped(p) ==
    /\ req[p].pc = "deletePending"
    /\ req' = [req EXCEPT ![p].ops = Log(req[p], "DeletePending", TRUE),
                          ![p].pc = "newFile"]
    /\ UNCHANGED <<hyd, keep, oversized, files, blobs, nextId, nfail>>

\* c.Api.File.DeletePending(m.Id, filename)
DeletePending(p) ==
    /\ req[p].pc = "deletePending"
    /\ LET r == req[p] IN
       \E ok \in BOOLEAN :
          /\ Outcome(ok)
          /\ files' = IF ok THEN RepoDeletePending(files, r.model, r.filename)
                      ELSE files
          /\ LET r1 == [r EXCEPT !.ops = Log(r, "DeletePending", ok)]
             IN  req' = [req EXCEPT ![p] =
                   IF ok THEN [r1 EXCEPT !.pc = "newFile"] ELSE Fail(r1, "deletePending", 502)]
    /\ UNCHANGED <<hyd, keep, oversized, blobs, nextId>>

\* models.NewFile(...): a fresh id and the current time.
NewFile(p) ==
    /\ req[p].pc = "newFile"
    /\ nextId <= MaxFiles
    /\ \E ok \in BOOLEAN :
          IF ok
          THEN /\ req' = [req EXCEPT ![p].pc = "save", ![p].fid = nextId]
               /\ nextId' = nextId + 1
          ELSE /\ req' = [req EXCEPT ![p] = Fail(@, "newFile", 502)]
               /\ UNCHANGED nextId
    /\ UNCHANGED <<hyd, keep, oversized, files, blobs, nfail>>

\* Mutant: the error of Save is logged but the handler goes on.
SaveFileIgnoresError(p) ==
    /\ req[p].pc = "save"
    /\ LET r == req[p] IN
       \E ok \in BOOLEAN :
          /\ Outcome(ok)
          /\ files' = IF ok
                      THEN [files EXCEPT ![r.fid] =
                              [status |-> "Pending", model |-> r.model,
                               filename |-> r.filename]]
                      ELSE files
          /\ oversized' = (oversized \/ (ok /\ ~WithinCeiling(r)))
          /\ req' = [req EXCEPT ![p] =
                [r EXCEPT !.ops = Log(r, "Save", ok), !.pc = "blobSave"]]
    /\ UNCHANGED <<hyd, keep, blobs, nextId>>

\* c.Api.File.Save(f)
SaveFile(p) ==
    /\ req[p].pc = "save"
    /\ LET r == req[p] IN
       \E ok \in BOOLEAN :
          /\ Outcome(ok)
          /\ files' = IF ok
                      THEN [files EXCEPT ![r.fid] =
                              [status |-> "Pending", model |-> r.model,
                               filename |-> r.filename]]
                      ELSE files
          /\ oversized' = (oversized \/ (ok /\ ~WithinCeiling(r)))
          /\ LET r1 == [r EXCEPT !.ops = Log(r, "Save", ok)]
             IN  req' = [req EXCEPT ![p] =
                   IF ok THEN [r1 EXCEPT !.pc = "blobSave"] ELSE Fail(r1, "save", 502)]
    /\ UNCHANGED <<hyd, keep, blobs, nextId>>

\* Mutant: a failed Blob.Save removes the request's Pending record.
BlobSaveCleansUp(p) ==
    /\ req[p].pc = "blobSave"
    /\ LET r == req[p] IN
       \E ok \in BOOLEAN :
          /\ Outcome(ok)
          /\ blobs' = IF ok THEN blobs \cup {r.fid} ELSE blobs
          /\ files' = IF ok THEN files ELSE RepoDelete(files, r.fid)
          /\ LET r1 == [r EXCEPT !.ops = Log(r, "BlobSave", ok)]
             IN  req' = [req EXCEPT ![p] =
                   IF ok THEN [r1 EXCEPT !.pc = "commit"] ELSE Fail(r1, "blobSave", 502)]
    /\ UNCHANGED <<hyd, keep, oversized, nextId>>

\* Mutant: the handler goes on to CommitPending after a failed Blob.Save.
BlobSaveIgnoresError(p) ==
    /\ req[p].pc = "blobSave"
    /\ LET r == req[p] IN
       \E ok \in BOOLEAN :
          /\ Outcome(ok)
          /\ blobs' = IF ok THEN blobs \cup {r.fid} ELSE blobs
          /\ req' = [req EXCEPT ![p] =
                [r EXCEPT !.ops = Log(r, "BlobSave", ok), !.pc = "commit"]]
    /\ UNCHANGED <<hyd, keep, oversized, files, nextId>>

\* c.Blob.Save(data, f.BlobFilename(), "application/octet-stream")
BlobSave(p) ==
    /\ req[p].pc = "blobSave"
    /\ LET r == req[p] IN
       \E ok \in BOOLEAN :
          /\ Outcome(ok)
          /\ blobs' = IF ok THEN blobs \cup {r.fid} ELSE blobs
          /\ LET r1 == [r EXCEPT !.ops = Log(r, "BlobSave", ok)]
             IN  req' = [req EXCEPT ![p] =
                   IF ok THEN [r1 EXCEPT !.pc = "commit"] ELSE Fail(r1, "blobSave", 502)]
    /\ UNCHANGED <<hyd, keep, oversized, files, nextId>>

\* Mutant: a failed CommitPending deletes the blob it could not commit.
CommitPendingRollsBack(p) ==
    /\ req[p].pc = "commit"
    /\ LET r == req[p] IN
       \E ok \in BOOLEAN :
          /\ ok => RepoCanCommit(files, r.model, r.filename, r.fid)
          /\ IF ok \/ ~RepoCanCommit(files, r.model, r.filename, r.fid)
             THEN UNCHANGED nfail
             ELSE Outcome(FALSE)
          /\ files' = IF ok THEN RepoCommitPending(files, r.model, r.filename, r.fid)
                      ELSE files
          /\ blobs' = IF ok THEN blobs ELSE blobs \ {r.fid}
          /\ LET r1 == [r EXCEPT !.ops = Log(r, "CommitPending", ok)]
             IN  req' = [req EXCEPT ![p] =
                   IF ok THEN [r1 EXCEPT !.pc = "toDelete"] ELSE Fail(r1, "commit", 502)]
    /\ UNCHANGED <<hyd, keep, oversized, nextId>>

\* Mutant: the handler goes on to the sweep without committing its record.
CommitPendingNoFlip(p) ==
    /\ req[p].pc = "commit"
    /\ req' = [req EXCEPT ![p].ops = Log(req[p], "CommitPending", TRUE),
                          ![p].pc = "toDelete"]
    /\ UNCHANGED <<hyd, keep, oversized, files, blobs, nextId, nfail>>

\* c.Api.File.CommitPending(m.Id, filename, f.Id)
CommitPending(p) ==
    /\ req[p].pc = "commit"
    /\ LET r == req[p] IN
       \E ok \in BOOLEAN :
          /\ ok => RepoCanCommit(files, r.model, r.filename, r.fid)
          /\ IF ok \/ ~RepoCanCommit(files, r.model, r.filename, r.fid)
             THEN UNCHANGED nfail
             ELSE Outcome(FALSE)
          /\ files' = IF ok THEN RepoCommitPending(files, r.model, r.filename, r.fid)
                      ELSE files
          /\ LET r1 == [r EXCEPT !.ops = Log(r, "CommitPending", ok)]
             IN  req' = [req EXCEPT ![p] =
                   IF ok THEN [r1 EXCEPT !.pc = "toDelete"] ELSE Fail(r1, "commit", 502)]
    /\ UNCHANGED <<hyd, keep, oversized, blobs, nextId>>

\* The list c.Api.File.ToDelete(m.Id, filename, 10) returns for request r.
SweepList(r) == RepoToDelete(files, r.model, r.filename, SweepKeep)

\* files, err := c.Api.File.ToDelete(m.Id, filename, 10)
ToDelete(p) ==
    /\ req[p].pc = "toDelete"
    /\ LET r == req[p] IN
       \E ok \in BOOLEAN :
          /\ Outcome(ok)
          /\ LET list == IF ok THEN SweepList(r) ELSE <<>>
             IN  req' = [req EXCEPT ![p] =
                   [r EXCEPT !.ops = Log(r, "ToDelete", ok),
                             !.listed = list,
                             !.todo = list,
                             !.pc = IF list = <<>> THEN "hydrate" ELSE "sweepBlob"]]
    /\ UNCHANGED <<hyd, keep, oversized, files, blobs, nextId>>

\* Mutant: a failed Blob.Delete ends the request with 502.
SweepBlobDeleteAborts(p) ==
    /\ req[p].pc = "sweepBlob"
    /\ LET r == req[p] IN
       \E ok \in BOOLEAN :
          /\ Outcome(ok)
          /\ blobs' = IF ok THEN blobs \ {Head(r.todo)} ELSE blobs
          /\ LET r1 == [r EXCEPT !.ops = Log(r, "BlobDelete", ok)]
             IN  req' = [req EXCEPT ![p] =
                   IF ok THEN [r1 EXCEPT !.pc = "sweepFile"]
                   ELSE Fail(r1, "blobDelete", 502)]
    /\ UNCHANGED <<hyd, keep, oversized, files, nextId>>

\* c.Blob.Delete(f.BlobFilename()) for the file at the head of the list
SweepBlobDelete(p) ==
    /\ req[p].pc = "sweepBlob"
    /\ LET r == req[p] IN
       \E ok \in BOOLEAN :
          /\ Outcome(ok)
          /\ blobs' = IF ok THEN blobs \ {Head(r.todo)} ELSE blobs
          /\ req' = [req EXCEPT ![p] =
                [r EXCEPT !.ops = Log(r, "BlobDelete", ok), !.pc = "sweepFile"]]
    /\ UNCHANGED <<hyd, keep, oversized, files, nextId>>

\* Mutant: a failed File.Delete ends the loop.
SweepFileDeleteBreaks(p) ==
    /\ req[p].pc = "sweepFile"
    /\ LET r == req[p] IN
       \E ok \in BOOLEAN :
          /\ Outcome(ok)
          /\ files' = IF ok THEN RepoDelete(files, Head(r.todo)) ELSE files
          /\ LET rest == IF ok THEN Tail(r.todo) ELSE <<>>
             IN  req' = [req EXCEPT ![p] =
                   [r EXCEPT !.ops = Log(r, "FileDelete", ok),
                             !.todo = rest,
                             !.pc = IF rest = <<>> THEN "hydrate" ELSE "sweepBlob"]]
    /\ UNCHANGED <<hyd, keep, oversized, blobs, nextId>>

\* c.Api.File.Delete(f.Id) for the same file; then the next file of the list
SweepFileDelete(p) ==
    /\ req[p].pc = "sweepFile"
    /\ LET r == req[p] IN
       \E ok \in BOOLEAN :
          /\ Outcome(ok)
          /\ files' = IF ok THEN RepoDelete(files, Head(r.todo)) ELSE files
          /\ req' = [req EXCEPT ![p] =
                [r EXCEPT !.ops = Log(r, "FileDelete", ok),
                          !.todo = Tail(r.todo),
                          !.pc = IF Tail(r.todo) = <<>> THEN "hydrate" ELSE "sweepBlob"]]
    /\ UNCHANGED <<hyd, keep, oversized, blobs, nextId>>

\* c.Api.File.Hydrate([]*models.File{f}), then the 200 response
Hydrate(p) ==
    /\ req[p].pc = "hydrate"
    /\ LET r == req[p] IN
       \E ok \in BOOLEAN :
          /\ Outcome(ok)
          /\ req' = [req EXCEPT ![p] =
                [r EXCEPT !.ops = Log(r, "Hydrate", ok),
                          !.hydrated = ok,
                          !.pc = "done", !.resp = 200]]
    /\ UNCHANGED <<hyd, keep, oversized, files, blobs, nextId>>

\* The handler has returned; the goroutine serves the next request.
Finish(p) ==
    /\ req[p].pc = "done"
    /\ req' = [req EXCEPT ![p] = IdleReq]
    /\ UNCHANGED <<hyd, keep, oversized, files, blobs, nextId, nfail>>

\* ---------------------------------------------------- ModelDb.Hydrate
\* The lists of models a caller passes (a model may be listed twice).
ModelLists == UNION {[1..n -> HydrateIds] : n \in 0..MaxModels}

\* What CountsByModels returns: a map with an entry for some ids, or an error.
CountMaps == UNION {[S -> Counts] : S \in SUBSET HydrateIds}
CountsResults ==
    [err : {FALSE}, counts : CountMaps] \cup {[err |-> TRUE, counts |-> <<>>]}

\* No call of ModelDb.Hydrate yet: Downloads is nil ({}) in every model.
HydIdle ==
    [downloads |-> [id \in HydrateIds |-> {}],
     before |-> [id \in HydrateIds |-> {}],
     input |-> <<>>, res |-> [err |-> FALSE, counts |-> <<>>], ret |-> "none"]

\* c := counts[model.Id]: the zero value when the map has no entry.
CountsAt(counts, id) == IF id \in DOMAIN counts THEN counts[id] ELSE ZeroCounts

\* Mutant: a model whose id has no counter entry keeps its Downloads.
ModelHydrateMissingStaysNil(dl, ms, res) ==
    IF res.err THEN dl
    ELSE [id \in DOMAIN dl |->
            IF (\E i \in 1..Len(ms) : ms[i] = id) /\ id \in DOMAIN res.counts
            THEN {res.counts[id]} ELSE dl[id]]

\* The Downloads of the models after Hydrate(ms) when CountsByModels gave res.
ModelHydrate(dl, ms, res) ==
    IF res.err THEN dl
    ELSE [id \in DOMAIN dl |->
            IF \E i \in 1..Len(ms) : ms[i] = id
            THEN {CountsAt(res.counts, id)} ELSE dl[id]]

ModelDbHydrate ==
    /\ \E ms \in ModelLists, res \in CountsResults :
          hyd' = [downloads |-> ModelHydrate(hyd.downloads, ms, res),
                  before |-> hyd.downloads,
                  input |-> ms, res |-> res,
                  ret |-> IF res.err THEN "err" ELSE "ok"]
    /\ UNCHANGED <<keep, files, blobs, nextId, nfail, oversized, req>>

Step(p) ==
    \/ DecodeMetadata(p) \/ LookupUser(p) \/ LookupModel(p) \/ CheckOwner(p)
    \/ LimitBody(p) \/ FormFile(p) \/ ReadAll(p) \/ DeletePending(p)
    \/ NewFile(p) \/ SaveFile(p) \/ BlobSave(p) \/ CommitPending(p)
    \/ ToDelete(p) \/ SweepBlobDelete(p) \/ SweepFileDelete(p) \/ Hydrate(p)
    \/ Finish(p)

\* The repository after n successful uploads to the first slot, the keep
\* values of the models being among ks.
LoadedKeeps(ks, n) ==
    /\ keep \in [Models -> ks]
    /\ \E m \in Models, fn \in Filenames :
          files = [f \in FileIds |->
                     IF f <= n
                     THEN [status |-> "Committed", model |-> m, filename |-> fn]
                     ELSE NoFile]
    /\ blobs = 1..n
    /\ nextId = n + 1
    /\ nfail = 0
    /\ oversized = FALSE
    /\ req = [p \in Procs |-> IdleReq]
    /\ hyd = HydIdle

Loaded(n) == LoadedKeeps(KeepValues, n)

Init == Loaded(0)

InitFull == Loaded(SweepKeep)

\* Requests served concurrently, on a slot that holds SweepKeep files.
Next == \E p \in Procs : Start(p, SmallSizes) \/ Step(p)

Spec == InitFull /\ [][Next]_vars

\* Requests served one after the other, from an empty repository.
Sequential == Min(Procs)

NextSeq == Start(Sequential, Sizes) \/ Step(Sequential)

SpecSeq == Init /\ [][NextSeq]_vars

\* Requests served one after the other for models of every size tier, on a
\* slot that holds SweepKeep files.
InitTier == LoadedKeeps(TierKeeps, SweepKeep)

NextTier == Start(Sequential, TierSizes) \/ Step(Sequential)

SpecTier == InitTier /\ [][NextTier]_vars

\* Calls of ModelDb.Hydrate, one after the other.
NextHydrate == ModelDbHydrate

SpecHydrate == Init /\ [][NextHydrate]_vars

\* ------------------------------------------------------------ properties
OpNames(r) == [i \in 1..Len(r.ops) |-> r.ops[i].op]
Issued(r, op) == \E i \in 1..Len(r.ops) : r.ops[i].op = op
Succeeded(r, op) == \E i \in 1..Len(r.ops) : r.ops[i].op = op /\ r.ops[i].ok
Answered(r) == r.pc = "done"

\* C1: once an upload has ended with 200, no collaborator having failed and
\* every payload having been within the ceiling, the slot holds at most keep
\* Committed files, for every keep value of the model.
C1_CommittedAtMostKeep ==
    \A p \in Procs :
        LET r == req[p] IN
        Answered(r) /\ r.resp = 200 /\ nfail = 0 /\ ~oversized
            => Cardinality(Committed(r.model, r.filename)) <= keep[r.model]

\* C2: after n sequential successful uploads with no failure and every
\* payload within the ceiling, the Committed
\* files of the slot are exactly the min(n, keep) most recently created.
C2_RetainsNewestMinNKeep ==
    \A p \in Procs :
        LET r == req[p]
            n == nextId - 1
            k == keep[r.model]
            kept == IF n < k THEN n ELSE k
        IN  Answered(r) /\ r.resp = 200 /\ nfail = 0 /\ ~oversized
                => Committed(r.model, r.filename) = (n - kept + 1)..n

\* C3: the body of a request is never read past the ceiling of the model's
\* keep tier, and a payload above the ceiling yields no File record and is
\* answered 400 (unless metadata, owner, model or ownership failed first).
C3_OversizeRejectedBeforeRead ==
    \A p \in Procs :
        LET r == req[p] IN
        r.pc # "idle" /\ ~WithinCeiling(r)
            => /\ r.bodyRead <= MaxBytes(keep[r.model])
               /\ r.fid = 0
               /\ Answered(r) /\ r.failed \notin
                      {"metadata", "user", "userError", "model", "modelError", "owner"}
                      => r.resp = 400

ValidationSteps ==
    {"metadata", "user", "userError", "model", "modelError", "owner", "file", "read"}

\* C4: a request that failed at metadata decoding, owner lookup, model
\* lookup, ownership check or while obtaining/reading the file has returned
\* without issuing any repository or blob-store operation and without
\* creating a File.
C4_ValidationFailureNoEffect ==
    \A p \in Procs :
        LET r == req[p] IN
        r.failed \in ValidationSteps
            => Answered(r) /\ r.ops = <<>> /\ r.fid = 0 /\ r.todo = <<>>

C4_Witness ==
    \E p \in Procs :
        /\ req[p].failed = "owner"
        /\ req[p].resp = 401
        /\ \E f \in FileIds : files[f].status = "Committed"

\* C5: at most one Pending record exists per slot in every reachable state
\* of concurrently served uploads.
C5_AtMostOnePending ==
    \A m \in Models, fn \in Filenames : Cardinality(Pending(m, fn)) <= 1
Pipeline == <<"DeletePending", "Save", "BlobSave", "CommitPending", "ToDelete">>

Stage(op) ==
    CASE op = "DeletePending" -> 1
      [] op = "Save" -> 2
      [] op = "BlobSave" -> 3
      [] op = "CommitPending" -> 4
      [] op = "ToDelete" -> 5
      [] op \in {"BlobDelete", "FileDelete"} -> 6
      [] op = "Hydrate" -> 7

\* C6: the storage operations of a request are issued in the order
\* DeletePending, Save, Blob.Save, CommitPending, ToDelete, then per file
\* Blob.Delete and File.Delete, then Hydrate, then the response; each of the
\* first four only after every earlier one succeeded, none of an earlier
\* stage after a later one, and the 200 response only after Hydrate.
C6_FixedOrder ==
    \A p \in Procs :
        LET r == req[p]
            o == r.ops
            n == Len(o)
        IN  /\ \A i \in 1..n : i <= Len(Pipeline) => o[i].op = Pipeline[i]
            /\ \A i \in 1..n : i > Len(Pipeline) =>
                   o[i].op \in {"BlobDelete", "FileDelete", "Hydrate"}
            /\ \A i \in 2..n : Stage(o[i - 1].op) <= Stage(o[i].op)
            /\ \A i \in 1..n : Stage(o[i].op) <= 4 => \A j \in 1..(i - 1) : o[j].ok
            /\ \A i \in 2..n : o[i].op = "FileDelete" <=> o[i - 1].op = "BlobDelete"
            /\ \A i \in 1..n : o[i].op = "Hydrate" => i = n /\ Answered(r)
            /\ r.resp = 200 => n > 0 /\ o[n].op = "Hydrate"
            /\ r.resp # 0 => Answered(r)

C6_Witness ==
    \E p \in Procs :
        /\ Answered(req[p]) /\ req[p].resp = 200
        /\ Issued(req[p], "BlobDelete") /\ Issued(req[p], "FileDelete")

\* C7: served one after the other, a request creates its Pending record
\* only when the slot holds no Pending record, a request that ended with 200
\* leaves none behind, and a Pending record is committed only by the
\* CommitPending of the request that created it -- so a Pending file left by
\* a failed attempt is removed by the next successful upload, uncommitted.
C7_StalePendingRemoved ==
    /\ [](\A p \in Procs :
            LET r == req[p] IN
            /\ r.pc = "save" => Pending(r.model, r.filename) = {}
            /\ Answered(r) /\ r.resp = 200 =>
                   /\ Pending(r.model, r.filename) = {}
                   /\ \A f \in 1..(r.fid - 1) :
                          files[f].status \in {"None", "Committed", "Deleted"})
    /\ [][\A f \in FileIds :
            /\ files[f].status = "Pending" /\ files'[f].status = "Committed"
                   => \E p \in Procs : req[p].pc = "commit" /\ req[p].fid = f
            /\ files[f].status = "Deleted" => files'[f].status = "Deleted"]_vars

\* An upload numbered at most SweepKeep triggers no sweep, so a Deleted
\* older record is a Pending record that DeletePending removed.
C7_Witness ==
    \E p \in Procs :
        /\ Answered(req[p]) /\ req[p].resp = 200
        /\ req[p].fid <= SweepKeep
        /\ \E f \in 1..(req[p].fid - 1) : files[f].status = "Deleted"

\* C8: a request whose CommitPending succeeded is in the sweep or at the
\* hydration, or has answered 200 after Hydrate; it never fails.
C8_SuccessAfterCommit ==
    \A p \in Procs :
        LET r == req[p] IN
        Succeeded(r, "CommitPending") =>
            /\ r.failed = ""
            /\ \/ r.pc \in {"toDelete", "sweepBlob", "sweepFile", "hydrate"} /\ r.resp = 0
               \/ Answered(r) /\ r.resp = 200 /\ r.ops[Len(r.ops)].op = "Hydrate"

C8_Witness ==
    \E p \in Procs :
        /\ Answered(req[p]) /\ req[p].resp = 200
        /\ \E i \in 1..Len(req[p].ops) :
              req[p].ops[i].op \in {"ToDelete", "BlobDelete", "FileDelete", "Hydrate"}
              /\ ~req[p].ops[i].ok

\* C9: a request whose Blob.Save failed has answered 502 after exactly
\* DeletePending, Save and Blob.Save, and its File record is still Pending.
C9_BlobSaveFailure ==
    \A p \in Procs :
        LET r == req[p] IN
        r.failed = "blobSave" =>
            /\ Answered(r) /\ r.resp = 502
            /\ OpNames(r) = <<"DeletePending", "Save", "BlobSave">>
            /\ files[r.fid].status = "Pending"
            /\ r.todo = <<>>

C9_Witness ==
    \E p \in Procs : req[p].failed = "blobSave" /\ files[req[p].fid].status = "Pending"

\* C10: a request whose CommitPending failed has answered 502 after exactly
\* DeletePending, Save, Blob.Save and CommitPending; its blob is still in
\* the blob store, and neither sweep nor hydration took place.
C10_CommitFailure ==
    \A p \in Procs :
        LET r == req[p] IN
        r.failed = "commit" =>
            /\ Answered(r) /\ r.resp = 502
            /\ OpNames(r) = <<"DeletePending", "Save", "BlobSave", "CommitPending">>
            /\ \A i \in 1..3 : r.ops[i].ok
            /\ r.fid \in blobs
            /\ files[r.fid].status # "Committed"
            /\ r.todo = <<>> /\ ~r.hydrated

C10_Witness ==
    \E p \in Procs : req[p].failed = "commit" /\ req[p].fid \in blobs

\* C11: an answered request carries exactly one status; it is 200 exactly
\* when no step failed, and then CommitPending had succeeded; otherwise the
\* failing step decides it: metadata or file part 400, unknown owner or
\* model 404, foreign uploader 401, DeletePending, Save, Blob.Save or
\* CommitPending 502, and always one of 400, 401, 404, 502.
C11_StatusByFailingStep ==
    \A p \in Procs :
        LET r == req[p] IN
        /\ Answered(r) <=> r.resp # 0
        /\ r.failed # "" => Answered(r)
        /\ Answered(r) =>
            /\ r.resp \in {200, 400, 401, 404, 502}
            /\ r.resp = 200 <=> r.failed = ""
            /\ r.resp = 200 => Succeeded(r, "CommitPending")
            /\ r.failed \in {"metadata", "file", "read"} => r.resp = 400
            /\ r.failed \in {"user", "model"} => r.resp = 404
            /\ r.failed = "owner" => r.resp = 401
            /\ r.failed \in {"deletePending", "save", "blobSave", "commit"} =>
                   /\ r.resp = 502
                   /\ ~r.ops[Len(r.ops)].ok
                   /\ \A i \in 1..(Len(r.ops) - 1) : r.ops[i].ok

C11_Witness ==
    \E p, q \in Procs :
        /\ Answered(req[p]) /\ req[p].failed = "user" /\ req[p].resp = 404
        /\ Answered(req[q]) /\ req[q].failed = "save" /\ req[q].resp = 502

\* C12: the ceiling installed on the body depends on the model's keep value
\* alone: 500 for keep 10, 1024 for 100, 2048 for 1000, 4096 for 10000 and
\* 500 for every other value (in units of 1024*1024 bytes).
C12_SizeTiers ==
    \A p \in Procs :
        LET r == req[p]
            k == keep[r.model]
            tier == IF k = 100 THEN 1024
                    ELSE IF k = 1000 THEN 2048
                    ELSE IF k = 10000 THEN 4096
                    ELSE 500
        IN  /\ r.pc \in {"idle", "decode", "user", "model", "owner", "limit"} => r.limit = {}
            /\ r.pc \in {"formfile", "readall", "deletePending", "newFile", "save"}
                   => r.limit = {tier}
            /\ r.limit # {} => r.limit = {tier}

C12_Witness ==
    \E p \in Procs :
        /\ req[p].pc = "readall" /\ req[p].size = 4097
        /\ keep[req[p].model] = 10000 /\ req[p].limit = {4096}

\* C13: a sweep that is about to run (or to run again, right after a
\* sweep) on a slot holding at most keep Committed files lists nothing, so
\* it deletes no blob and no record.
C13_SweepNoOpWithinKeep ==
    \A p \in Procs :
        LET r == req[p] IN
        /\ r.pc \in {"toDelete", "hydrate"}
        /\ Cardinality(Committed(r.model, r.filename)) <= keep[r.model]
        => SweepList(r) = <<>>

\* C14: a ModelDb.Hydrate that returns nil has set the Downloads of every
\* model of its input to a non-nil value, the counter entry of the model's
\* id or the zero counts when there is no entry; it returns an error only
\* when CountsByModels did, and then no model's Downloads has changed.
C14_HydrateToleratesMissing ==
    LET ids == {hyd.input[i] : i \in 1..Len(hyd.input)} IN
    /\ hyd.ret \in {"none", "ok", "err"}
    /\ hyd.ret = "err" <=> hyd.res.err
    /\ hyd.ret = "ok" =>
          /\ \A id \in ids :
                /\ hyd.downloads[id] # {}
                /\ hyd.downloads[id] =
                      {IF id \in DOMAIN hyd.res.counts
                       THEN hyd.res.counts[id] ELSE ZeroCounts}
          /\ \A id \in HydrateIds \ ids : hyd.downloads[id] = hyd.before[id]
    /\ hyd.ret = "err" => hyd.downloads = hyd.before

C14_Witness ==
    /\ hyd.ret = "ok"
    /\ \E i \in 1..Len(hyd.input) :
          /\ hyd.input[i] \notin DOMAIN hyd.res.counts
          /\ hyd.before[hyd.input[i]] = {}
          /\ hyd.downloads[hyd.input[i]] = {ZeroCounts}
    /\ \E i \in 1..Len(hyd.input) : hyd.input[i] \in DOMAIN hyd.res.counts

\* C15 as stated: every Committed File record has its bytes in the blob
\* store.
C15_CommittedHasBlob ==
    \A f \in FileIds : files[f].status = "Committed" => f \in blobs

\* C15, amended: a Committed record that lacks its bytes has at least
\* SweepKeep newer Committed records in its slot (it was listed by a sweep,
\* which deletes the blob before the record), and a record a request made
\* is Committed only after that request's Blob.Save succeeded.
C15_RetainedCommittedHasBlob ==
    /\ \A f \in FileIds :
          files[f].status = "Committed" /\ f \notin blobs =>
              Cardinality({g \in Committed(files[f].model, files[f].filename) :
                              g > f}) >= SweepKeep
    /\ \A p \in Procs :
          LET r == req[p] IN
          r.fid # 0 /\ files[r.fid].status = "Committed" =>
              Succeeded(r, "BlobSave")

C15_Witness ==
    \E p \in Procs, f \in FileIds :
        /\ req[p].pc = "done" /\ req[p].resp = 200
        /\ \E i \in 1..Len(req[p].ops) :
              req[p].ops[i].op = "FileDelete" /\ ~req[p].ops[i].ok
        /\ files[f].status = "Committed" /\ f \notin blobs

\* The deletions a request has attempted so far, in the order of the calls.
Deletions(r) ==
    SelectSeq(r.ops, LAMBDA e : e.op \in {"BlobDelete", "FileDelete"})

\* C16: the deletions of a sweep go through the list ToDelete returned in
\* its order, oldest file first, Blob.Delete and then File.Delete on each
\* file; whatever failed, when the sweep is over both deletions have been
\* attempted on every file of the list.
C16_SweepOrder ==
    \A p \in Procs :
        LET r == req[p]
            dels == Deletions(r)
        IN  /\ \A i, j \in 1..Len(r.listed) : i < j => r.listed[i] < r.listed[j]
            /\ Len(dels) <= 2 * Len(r.listed)
            /\ \A i \in 1..Len(dels) :
                  /\ dels[i].file = r.listed[(i + 1) \div 2]
                  /\ dels[i].op = IF i % 2 = 1 THEN "BlobDelete" ELSE "FileDelete"
            /\ r.pc = "sweepFile" => Len(dels) % 2 = 1
            /\ r.pc \in {"hydrate", "done"} /\ Issued(r, "ToDelete") =>
                  Len(dels) = 2 * Len(r.listed)

C16_Witness ==
    \E p \in Procs :
        LET dels == Deletions(req[p]) IN
        /\ req[p].pc = "hydrate"
        /\ Len(req[p].listed) >= 2
        /\ Len(dels) = 4
        /\ ~dels[2].ok
        /\ dels[3].ok /\ dels[4].ok

\* C17: when the sweep of a committed upload is over, the slot holds at
\* most keep Committed files plus one per failure of a collaborator so far,
\* and at most keep when the listing and every deletion of that sweep
\* succeeded, whatever earlier sweeps left behind.
C17_ExcessDoesNotAccumulate ==
    \A p \in Procs :
        LET r == req[p]
            n == Cardinality(Committed(r.model, r.filename))
        IN  r.pc \in {"hydrate", "done"} /\ Succeeded(r, "CommitPending")
            /\ ~oversized
            => /\ n <= keep[r.model] + nfail
               /\ Succeeded(r, "ToDelete")
                  /\ (\A i \in 1..Len(Deletions(r)) : Deletions(r)[i].ok)
                  => n <= keep[r.model]

\* C18: when uploads are served one after the other, whichever of their
\* steps fail, a slot never holds more than one Pending record; while a
\* request is between Save and CommitPending that record is the request's
\* own, and none is left once a request has committed its file and when it
\* has answered 200.
C18_SequentialAtMostOnePending ==
    /\ \A m \in Models, fn \in Filenames : Cardinality(Pending(m, fn)) <= 1
    /\ \A p \in Procs :
          LET r == req[p]
              pend == Pending(r.model, r.filename)
          IN  /\ r.pc \in {"newFile", "save"} => pend = {}
              /\ r.pc \in {"blobSave", "commit"} => pend = {r.fid}
              /\ Succeeded(r, "CommitPending") => pend = {}
              /\ Answered(r) /\ r.resp = 200 => pend = {}

C18_Witness ==
    \E p \in Procs :
        /\ Answered(req[p]) /\ req[p].resp = 200
        /\ Pending(req[p].model, req[p].filename) = {}
        /\ \E f \in FileIds : /\ f < req[p].fid
                              /\ files[f].status = "Deleted"
                              /\ f \in blobs

\* C19: with concurrent uploads to one slot and no failure of a
\* collaborator, the Pending record a request saved is still Pending when
\* the request reaches Blob.Save and CommitPending, and every request that
\* saved a record answers 200 with its file committed or swept.
C19_ConcurrentUploadsBothCommit ==
    \A p \in Procs :
        LET r == req[p] IN
        nfail = 0 =>
            /\ r.pc \in {"blobSave", "commit"} => files[r.fid].status = "Pending"
            /\ Answered(r) /\ Issued(r, "Save") =>
                  /\ r.resp = 200
                  /\ Succeeded(r, "CommitPending")

====
